---- MODULE Spec2Model ----
(***************************************************************************)
(* Model of the AAVE cap-change watcher (src/AAVEWatcher.py): the polling  *)
(* loop of main(), fetch_and_process() with the decoding of each log, and  *)
(* the memoised label resolver resolve_token_label().                      *)
(*                                                                         *)
(* Spec      : the watcher loop, from the start of main() on.              *)
(* SpecLabel : sequences of resolve_token_label() calls against its cache. *)
(***************************************************************************)
EXTENDS Integers, Sequences, FiniteSets, TLC

(* ---------------- program constants (src/AAVEWatcher.py) ---------------- *)
MAX_BLOCK_SPAN == 10
CONFIRMATIONS == 3
BACKOFF_CAP == 60
LRU_MAXSIZE == 4096
\* src/PendleAssetsWatcher.py
POLL_SECS == 900
BACKOFF_SECS == 300

(* ---------------- bounds of the model ---------------- *)
\* over a run the provider reports heads of a chain near genesis
\* (0..MaxLowHead) or heads of a chain at MinHighHead..MaxHighHead
MaxLowHead == 3
MinHighHead == 127
MaxHighHead == 128
\* a configured start-block override that parses
ExampleStart == 100
\* get_logs returns at most MaxLogs logs for one window
MaxLogs == 2
\* the configurator emitted its events in block EventBlock and in no other
EventBlock == 105
\* asset addresses 1..MaxLogAddr occur in the logs the loop fetches
MaxLogAddr == 1
\* resolve_token_label is called on the addresses 1..MaxAddr one at a time
MaxAddr == 2
\* and at most MaxBursts times on a run of addresses it has never seen
MaxBursts == 1
\* iterations that raise in a row are counted up to MaxFailRun
MaxFailRun == 7
MaxTimestamp == 2
MaxCycles == 2
MaxAsset == 2

Heads == (0..MaxLowHead) \cup (MinHighHead..MaxHighHead)
\* the heads a later read can report once the head h was read
HeadsAfter(h) == IF h <= MaxLowHead THEN 0..MaxLowHead ELSE MinHighHead..MaxHighHead

Min(a, b) == IF a <= b THEN a ELSE b
Max(a, b) == IF a >= b THEN a ELSE b
Ceil(n, d) == (n + d - 1) \div d

\* START_BLOCK_ENV: unset, a string int() rejects, or a parseable integer
StartBlocks == {ExampleStart}
StartEnvs ==
    {[set |-> FALSE, parses |-> FALSE, value |-> 0],
     [set |-> TRUE, parses |-> FALSE, value |-> 0]}
    \cup {[set |-> TRUE, parses |-> TRUE, value |-> v] : v \in StartBlocks}

VARIABLES
    pc,             \* position in main()
    head,           \* main(): head
    safe_head,      \* main(): safe_head
    last_processed, \* main(): last_processed, the cursor
    window_end,     \* main(): window_end
    backoff,        \* main(): backoff
    logs,           \* fetch_and_process(): logs, the answer of get_logs
    lg_idx,         \* fetch_and_process(): position of the for loop in logs
    count,          \* fetch_and_process(): count
    label_cache,    \* the lru_cache of resolve_token_label, a sequence of runs
    notified,       \* history: the notify calls of this window, [idx, ev] each
    skipped,        \* history: positions of the logs of this window whose processing raised
    first_cursor,   \* history: the cursor main() entered the loop with
    iter_start,     \* history: the cursor the current iteration began with
    issued,         \* history: the windows get_logs was called with in this iteration
    last_query,     \* history: the latest get_logs call, <<>> or <<a query record>>
    covered,        \* history: the blocks of the windows get_logs answered
    requeried,      \* history: some block was in two answered windows
    lbl_call,       \* history: the latest resolve_token_label call, <<>> or <<a record>>
    lbl_resolved,   \* history: per address, <<>> or <<the label a resolution got from the network>>
    lbl_failed,     \* history: per address, its latest resolution met failing network calls
    lbl_since,      \* history: per address, the other addresses resolved since its latest
                    \* resolution, the fresh ones counted up to LRU_MAXSIZE
    lbl_bursts,     \* history: number of runs of fresh addresses resolved
    post_raised,    \* history: the latest step called notify and its post raised
    fail_run,       \* history: the iterations that raised since the latest one that did
                    \* not, counted up to MaxFailRun
    stop_raised,    \* environment: the hosting process has raised its stop signal
    decoded,        \* history: the first decode_cap_change_log call on its own that
                    \* returned, <<>> or <<a record>>
    dec_call,       \* history: the decode_cap_change_log call the latest step made on
                    \* its own and that returned, <<>> or <<a record>>
    start_env,      \* history: the START_BLOCK_ENV the latest step set the cursor
                    \* from, <<>> or <<a record of StartEnvs>>
    last_error,     \* history: what the latest get_logs call raised, <<>> when it answered
    block_raised,   \* history: the latest step decoded a log and its get_block read raised
    stop_event,     \* run_forever(): stop_event is set
    rf_pc,          \* position in run_forever()
    rf_i,           \* run_forever(): i, counted up to MaxCycles
    rf_break,       \* run_forever(): a break of an except clause waits for the finally clause
    sl_from,        \* stop_aware_sleep(): the clause that called it
    sl_left,        \* stop_aware_sleep(): iterations of range(secs) left
    stop_at,        \* history: where run_forever() was when stop_event was set
    begun_after_stop, \* history: one_cycle calls begun since stop_event was set
    woke_after_stop,  \* history: time.sleep(1) calls that ended since stop_event was set
    cy_pc,          \* position in one_cycle()
    table,          \* the address column of the pendle_assets table
    curr_assets,    \* one_cycle(): curr_assets, the addresses of the fetched assets
    known_addrs,    \* one_cycle(): known_addrs
    new_assets,     \* one_cycle(): new_assets
    table_before,   \* history: the table when the cycle began
    listed          \* history: the assets the notify call of this cycle listed

loopvars == <<pc, head, safe_head, last_processed, window_end, backoff>>
winvars == <<logs, lg_idx, count, notified, skipped>>
histvars == <<first_cursor, iter_start, issued, last_query, covered, requeried>>
lblvars == <<lbl_call, lbl_resolved, lbl_failed, lbl_since, lbl_bursts>>
runvars == <<fail_run>>
decvars == <<decoded, dec_call>>
aavevars == <<loopvars, winvars, label_cache, histvars, lblvars, runvars, post_raised, stop_raised, decvars, start_env, last_error, block_raised>>
rfvars == <<stop_event, rf_pc, rf_i, rf_break, sl_from, sl_left, stop_at, begun_after_stop, woke_after_stop>>
cyvars == <<cy_pc, table, curr_assets, known_addrs, new_assets, table_before, listed>>
vars == <<aavevars, rfvars, cyvars>>

Window(f, t) == [from |-> f, to |-> t]

\* a get_logs call: its window, whether it answered, the safe head it was
\* planned against, and the call before it when that one failed
Query(f, t, ok, sh, prev) ==
    [from |-> f, to |-> t, ok |-> ok, safe_head |-> sh,
     retry_of |-> IF prev # <<>> /\ ~prev[1].ok
                  THEN <<[from |-> prev[1].from, to |-> prev[1].to,
                          safe_head |-> prev[1].safe_head]>>
                  ELSE <<>>]

\* the latest get_logs call once the loop has gone on from it: the call
\* before it is no longer held against it
Settled(q) == IF q = <<>> THEN q ELSE <<[q[1] EXCEPT !.retry_of = <<>>]>>

(* ---------------- main(): cursor and window, lines 215-242 ---------------- *)
\* a start that ignores START_BLOCK_ENV
InitialCursorNoOverride(env, h) == Max(0, h - CONFIRMATIONS)
\* lines 215-223: the initial cursor
InitialCursor(env, h) ==
    IF env.set
    THEN IF env.parses THEN env.value ELSE h - Max(CONFIRMATIONS, 1)
    ELSE Max(0, h - CONFIRMATIONS)

\* a safe head that ignores the confirmation depth
SafeHeadNoConfirmations(h) == Max(0, h)
\* line 231
SafeHead(h) == Max(0, h - CONFIRMATIONS)

\* window ends that pass the safe head, or span one block too many
WindowEndUnclamped(cursor, sh) == cursor + MAX_BLOCK_SPAN - 1
WindowEndWide(cursor, sh) == Min(cursor + MAX_BLOCK_SPAN, sh)
\* line 240
WindowEnd(cursor, sh) == Min(cursor + MAX_BLOCK_SPAN - 1, sh)

\* cursors that stay on the last block of the window, or skip a block
NextCursorStuck(we) == we
NextCursorSkip(we) == we + 2
\* line 242
NextCursor(we) == we + 1

\* a cursor that gives up the window whose query failed
CursorAfterFailureSkips(cursor, we) == we + 1
\* lines 241-248: get_logs raised, line 242 is not reached
CursorAfterFailure(cursor, we) == cursor

\* an exception that no try statement catches
OnExceptionUncaught(at) == "halted"
\* where main() goes on when a call raises at position at: lines 208-225
\* are in no try statement, the loop body is in the one of lines 229-248
OnException(at) == IF at = "start" THEN "halted" ELSE "sleep_backoff"

\* line 252: the time the except clause sleeps
BackoffSleepTime(b) == Min(BACKOFF_CAP, b)

\* line 253
NextBackoff(b) == Min(BACKOFF_CAP, b * 2)

(* ---------------- label resolution, lines 61-114 ---------------- *)
\* what the network calls of one resolution answer: get_code gives code,
\* empty code or raises; symbol() and name() give decodable text, empty or
\* undecodable bytes, or raise; a call the body does not reach is "uncalled"
CallOutcomes == {"text", "empty", "raise"}
NetOutcomes ==
    {[code |-> c, symbol |-> "uncalled", name |-> "uncalled"] : c \in {"empty", "raise"}}
    \cup {[code |-> "code", symbol |-> "text", name |-> "uncalled"]}
    \cup {[code |-> "code", symbol |-> sy, name |-> nm] :
             sy \in CallOutcomes \ {"text"}, nm \in CallOutcomes}

\* what get_code, symbol() and name() would each answer to one resolution,
\* whether or not the body gets to call them
NetAnswers ==
    {[code |-> c, symbol |-> sy, name |-> nm] :
        c \in {"code", "empty", "raise"}, sy \in CallOutcomes, nm \in CallOutcomes}

\* stands for the outcome where the cache answers and no network call is made
NoNet == [code |-> "uncalled", symbol |-> "uncalled", name |-> "uncalled"]

Label(kind, a) == [kind |-> kind, addr |-> a]

\* _call_fn and _decode_string_or_bytes32, lines 61-86: text comes out only of
\* a call that returned decodable, non-empty bytes
CallGivesText(outcome) == outcome = "text"

\* a body that asks name() before symbol()
ResolveUncachedNameFirst(a, net) ==
    IF net.code # "code" THEN Label("address", a)
    ELSE IF CallGivesText(net.name) THEN Label("name", a)
    ELSE IF CallGivesText(net.symbol) THEN Label("symbol", a)
    ELSE Label("address", a)

\* the body of resolve_token_label, lines 91-114
ResolveUncached(a, net) ==
    IF net.code # "code" THEN Label("address", a)
    ELSE IF CallGivesText(net.symbol) THEN Label("symbol", a)
    ELSE IF CallGivesText(net.name) THEN Label("name", a)
    ELSE Label("address", a)

\* the network calls the body makes, in order
NetCalls(a, net) ==
    IF net.code # "code" THEN <<"get_code">>
    ELSE IF CallGivesText(net.symbol) THEN <<"get_code", "symbol">>
    ELSE <<"get_code", "symbol", "name">>

\* a call threw or returned empty or malformed bytes, and the address came back
NetFailed(net) ==
    \/ net.code = "raise"
    \/ net.code = "code" /\ ~CallGivesText(net.symbol) /\ ~CallGivesText(net.name)

\* the lru_cache of resolve_token_label is a sequence of runs, least recently
\* used first: the run [lo, hi, kind] holds the keys lo..hi, lo the oldest,
\* each key k with the label Label(kind, k); a key stored alone is the run
\* [k, k, kind]
Run(lo, hi, kind) == [lo |-> lo, hi |-> hi, kind |-> kind]

RECURSIVE CacheLen(_)
\* the number of keys the cache holds
CacheLen(cache) ==
    IF cache = <<>> THEN 0
    ELSE Head(cache).hi - Head(cache).lo + 1 + CacheLen(Tail(cache))

\* a cache that never answers
CacheIndexNeverHits(cache, a) == 0
\* lru_cache: the position of the run that holds key a, 0 when there is none
CacheIndex(cache, a) ==
    IF \E i \in 1..Len(cache) : cache[i].lo <= a /\ a <= cache[i].hi
    THEN CHOOSE i \in 1..Len(cache) : cache[i].lo <= a /\ a <= cache[i].hi
    ELSE 0

Cached(cache, a) == CacheIndex(cache, a) > 0

\* lru_cache, a hit on key a of run i: the key becomes the most recently used
CacheTouch(cache, i, a) ==
    LET older == IF cache[i].lo < a THEN <<Run(cache[i].lo, a - 1, cache[i].kind)>> ELSE <<>>
        newer == IF a < cache[i].hi THEN <<Run(a + 1, cache[i].hi, cache[i].kind)>> ELSE <<>>
    IN SubSeq(cache, 1, i - 1) \o older \o newer \o SubSeq(cache, i + 1, Len(cache))
       \o <<Run(a, a, cache[i].kind)>>

RECURSIVE DropOldest(_, _)
\* lru_cache, eviction: the n least recently used keys leave the cache
DropOldest(cache, n) ==
    IF n <= 0 \/ cache = <<>> THEN cache
    ELSE LET size == Head(cache).hi - Head(cache).lo + 1 IN
         IF size <= n THEN DropOldest(Tail(cache), n - size)
         ELSE <<Run(Head(cache).lo + n, Head(cache).hi, Head(cache).kind)>> \o Tail(cache)

\* lru_cache, a miss: the result is stored, the oldest key dropped when full
CacheStore(cache, a, label) ==
    LET kept == IF CacheLen(cache) >= LRU_MAXSIZE THEN DropOldest(cache, 1) ELSE cache
    IN Append(kept, Run(a, a, label.kind))

\* @lru_cache(maxsize=4096) around resolve_token_label, line 88, for the
\* position i of a's run in the cache: the label returned, the cache left
\* and the network calls made
ResolveAt(cache, i, a, net) ==
    IF i > 0
    THEN [label |-> Label(cache[i].kind, a), cache |-> CacheTouch(cache, i, a),
          calls |-> <<>>]
    ELSE [label |-> ResolveUncached(a, net),
          cache |-> CacheStore(cache, a, ResolveUncached(a, net)),
          calls |-> NetCalls(a, net)]

ResolveTokenLabel(cache, a, net) == ResolveAt(cache, CacheIndex(cache, a), a, net)

\* resolve_token_label called on each of the addresses lo..hi in turn, none of
\* which was ever resolved and each of which answers symbol(): every call
\* misses and stores its label (CacheStore), so the keys are appended in the
\* order of the calls and the cache keeps its LRU_MAXSIZE most recent keys
BurstNet == [code |-> "code", symbol |-> "text", name |-> "uncalled"]
BurstStore(cache, lo, hi) ==
    LET all == Append(cache, Run(lo, hi, ResolveUncached(hi, BurstNet).kind))
    IN DropOldest(all, CacheLen(all) - LRU_MAXSIZE)

(* ---------------- logs and decoding, lines 119-167 ---------------- *)
TOPIC_SUPPLY_CAP_CHANGED == "topic:SupplyCapChanged"
TOPIC_BORROW_CAP_CHANGED == "topic:BorrowCapChanged"
TOPIC_OTHER == "topic:other"
Topics == {TOPIC_SUPPLY_CAP_CHANGED, TOPIC_BORROW_CAP_CHANGED, TOPIC_OTHER}

\* a raw log is well formed ("ok"), lacks topics[1] (an event of another
\* signature, with no indexed parameter), or carries data that is not two
\* 256-bit words
LogAddrs == 1..MaxLogAddr
LogForms ==
    {[topic0 |-> t, shape |-> "ok"] : t \in Topics}
    \cup {[topic0 |-> TOPIC_OTHER, shape |-> "no_topic1"],
          [topic0 |-> TOPIC_SUPPLY_CAP_CHANGED, shape |-> "bad_data"]}

HasEvents(b) == b = EventBlock

RawLogsIn(f, t) ==
    {[blockNumber |-> b, topic0 |-> m.topic0, shape |-> m.shape, addr |-> a] :
        b \in {x \in f..t : HasEvents(x)}, m \in LogForms, a \in LogAddrs}

\* the answers get_logs can give for [f, t]: ascending block numbers
LogAnswers(f, t) ==
    {ls \in UNION {[1..n -> RawLogsIn(f, t)] : n \in 0..MaxLogs} :
        \A i \in 1..Len(ls) - 1 : ls[i].blockNumber <= ls[i + 1].blockNumber}

\* a classification that takes every topic for one of the two events
EventKindKnownOnly(topic0) ==
    IF topic0 = TOPIC_BORROW_CAP_CHANGED THEN "BorrowCapChanged" ELSE "SupplyCapChanged"
\* lines 124-132
EventKind(topic0) ==
    IF topic0 = TOPIC_SUPPLY_CAP_CHANGED THEN "SupplyCapChanged"
    ELSE IF topic0 = TOPIC_BORROW_CAP_CHANGED THEN "BorrowCapChanged"
    ELSE "UnknownEvent"

\* what w3.eth.get_block(bn) can return, line 146: a header of that number
\* with one of the timestamps
Headers(bn) == {[number |-> bn, timestamp |-> t] : t \in 1..MaxTimestamp}
\* the header the chain keeps at bn while no block of that depth is replaced
ChainHeader(bn) == [number |-> bn, timestamp |-> 1]
\* the read raises, <<>>, or returns a header
BlockAnswers(bn) == {<<>>} \cup {<<h>> : h \in Headers(bn)}

\* line 147: datetime.fromtimestamp(blk.timestamp, UTC)
FromTimestamp(t) == [epoch |-> t, tz |-> "UTC"]

\* decode_cap_change_log: that it raised, or the event it returns, and the
\* cache it leaves; blk is what the get_block read gives. The tx hash and the
\* two caps are read off the bytes of the log alone and are not carried.
DecodeCapChangeLog(lg, cache, net, blk) ==
    IF lg.shape = "no_topic1"
    THEN [raised |-> TRUE, cache |-> cache, ev |-> <<>>]
    ELSE LET r == ResolveTokenLabel(cache, lg.addr, net) IN
         IF lg.shape = "bad_data" \/ blk = <<>>
         THEN [raised |-> TRUE, cache |-> r.cache, ev |-> <<>>]
         ELSE [raised |-> FALSE, cache |-> r.cache,
               ev |-> <<[event |-> EventKind(lg.topic0), block |-> lg.blockNumber,
                         asset_addr |-> lg.addr, asset_label |-> r.label,
                         ts |-> FromTimestamp(blk[1].timestamp)]>>]

\* what requests.post does in notify, line 47: it returns or it raises
PostOutcomes == {"sent", "raise"}

\* a notify that lets the exception of the post out
NotifyPropagates(post) == post = "raise"
\* notify, lines 42-53: whether the call raises; the except clause of line 52
\* keeps whatever the post raises
NotifyRaises(post) == FALSE

\* an emitter that notifies twice
EmitEventMsgTwice(i, ev) == <<[idx |-> i, ev |-> ev], [idx |-> i, ev |-> ev]>>
\* emit_event_msg, lines 160-167: the notify calls made for the event of logs[i]
EmitEventMsg(i, ev) == <<[idx |-> i, ev |-> ev]>>

\* an except clause that leaves the for loop
NextLogAfterRaiseBreaks(i, n) == n + 1
\* lines 192-199: the except clause goes on with the next log
NextLogAfterRaise(i, n) == i + 1

(* ---------------- the watcher loop: main(), lines 207-253 ---------------- *)
Addrs == 1..MaxAddr

\* the raw logs decode_cap_change_log is called with on its own
DecodeLogs == RawLogsIn(EventBlock, EventBlock)

\* the decode remembered, after resolve_token_label(a) was called when
\* `others` other addresses had been resolved since its latest call on a:
\* kept says that every such call on the address of the log came with fewer
\* than LRU_MAXSIZE others
AfterResolution(dec, a, others) ==
    IF dec # <<>> /\ dec[1].log.addr = a
    THEN <<[dec[1] EXCEPT !.kept = @ /\ others < LRU_MAXSIZE]>>
    ELSE dec

Init ==
    /\ pc = "start"
    /\ head = 0
    /\ safe_head = 0
    /\ last_processed = 0
    /\ window_end = 0
    /\ backoff = 1
    /\ logs = <<>>
    /\ lg_idx = 1
    /\ count = 0
    /\ label_cache = <<>>
    /\ notified = <<>>
    /\ skipped = {}
    /\ first_cursor = 0
    /\ iter_start = 0
    /\ issued = <<>>
    /\ last_query = <<>>
    /\ covered = {}
    /\ requeried = FALSE
    /\ lbl_call = <<>>
    /\ lbl_resolved = [a \in Addrs |-> <<>>]
    /\ lbl_failed = [a \in Addrs |-> FALSE]
    /\ lbl_since = [a \in Addrs |-> [seen |-> {}, fresh |-> 0]]
    /\ lbl_bursts = 0
    /\ fail_run = 0
    /\ post_raised = FALSE
    /\ stop_raised = FALSE
    /\ decoded = <<>>
    /\ dec_call = <<>>
    /\ start_env = <<>>
    /\ last_error = <<>>
    /\ block_raised = FALSE
    /\ stop_event = FALSE
    /\ rf_pc = "test"
    /\ rf_i = 0
    /\ rf_break = FALSE
    /\ sl_from = "none"
    /\ sl_left = 0
    /\ stop_at = "none"
    /\ begun_after_stop = 0
    /\ woke_after_stop = 0
    /\ cy_pc = "begin"
    /\ table = {}
    /\ curr_assets = {}
    /\ known_addrs = {}
    /\ new_assets = {}
    /\ table_before = {}
    /\ listed = {}

\* lines 215-227: the head is read and the cursor set
Start ==
    /\ pc = "start"
    /\ \E env \in StartEnvs, h \in Heads :
        /\ head' = h
        /\ last_processed' = InitialCursor(env, h)
        /\ first_cursor' = InitialCursor(env, h)
        /\ iter_start' = InitialCursor(env, h)
        /\ start_env' = <<env>>
    /\ UNCHANGED last_error
    /\ backoff' = 1
    /\ pc' = "loop"
    /\ UNCHANGED <<safe_head, window_end, winvars, label_cache, lblvars>>
    /\ UNCHANGED <<issued, last_query, covered, requeried>>
    /\ UNCHANGED runvars
    /\ post_raised' = FALSE
    /\ block_raised' = FALSE
    /\ UNCHANGED rfvars
    /\ UNCHANGED cyvars
    /\ UNCHANGED stop_raised
    /\ UNCHANGED decvars

\* lines 208-215: a read of the chain raises before the loop is entered
StartFail ==
    /\ pc = "start"
    /\ pc' = OnException(pc)
    /\ UNCHANGED <<head, safe_head, last_processed, window_end, backoff>>
    /\ UNCHANGED <<winvars, label_cache, histvars, lblvars>>
    /\ UNCHANGED runvars
    /\ post_raised' = FALSE
    /\ block_raised' = FALSE
    /\ UNCHANGED rfvars
    /\ UNCHANGED cyvars
    /\ UNCHANGED stop_raised
    /\ start_env' = <<>>
    /\ UNCHANGED last_error
    /\ UNCHANGED decvars

\* lines 230-236: the head is read; nothing to do, or the catch-up begins
ReadHead ==
    /\ pc = "loop"
    /\ \E h \in HeadsAfter(head) :
        /\ head' = h
        /\ safe_head' = SafeHead(h)
        /\ pc' = IF SafeHead(h) < last_processed THEN "sleep_poll" ELSE "catchup"
    /\ iter_start' = last_processed
    /\ issued' = <<>>
    /\ UNCHANGED <<last_processed, window_end, backoff>>
    /\ UNCHANGED <<winvars, label_cache, lblvars>>
    /\ UNCHANGED <<first_cursor, last_query, covered, requeried>>
    /\ fail_run' = IF SafeHead(head') < last_processed THEN 0 ELSE fail_run
    /\ post_raised' = FALSE
    /\ block_raised' = FALSE
    /\ UNCHANGED rfvars
    /\ UNCHANGED cyvars
    /\ UNCHANGED stop_raised
    /\ start_env' = <<>>
    /\ UNCHANGED last_error
    /\ UNCHANGED decvars

\* line 230 raises: the except clause of line 248
ReadHeadFail ==
    /\ pc = "loop"
    /\ pc' = OnException(pc)
    /\ UNCHANGED <<head, safe_head, last_processed, window_end, backoff>>
    /\ UNCHANGED <<winvars, label_cache, histvars, lblvars>>
    /\ fail_run' = Min(MaxFailRun, fail_run + 1)
    /\ post_raised' = FALSE
    /\ block_raised' = FALSE
    /\ UNCHANGED rfvars
    /\ UNCHANGED cyvars
    /\ UNCHANGED stop_raised
    /\ start_env' = <<>>
    /\ UNCHANGED last_error
    /\ UNCHANGED decvars

\* lines 239-241 and 177-189: the window is planned and get_logs answers
FetchOk ==
    /\ pc = "catchup"
    /\ last_processed <= safe_head
    /\ window_end' = WindowEnd(last_processed, safe_head)
    /\ IF window_end' < last_processed
       THEN /\ logs' = <<>>
            /\ UNCHANGED <<issued, last_query, covered, requeried, last_error>>
       ELSE /\ \E ls \in LogAnswers(last_processed, window_end') : logs' = ls
            /\ issued' = Append(issued, Window(last_processed, window_end'))
            /\ last_query' =
                 <<Query(last_processed, window_end', TRUE, safe_head, last_query)>>
            /\ last_error' = <<>>
            /\ covered' = covered \cup (last_processed..window_end')
            /\ requeried' = (requeried \/ covered \cap (last_processed..window_end') # {})
    /\ lg_idx' = 1
    /\ count' = 0
    /\ notified' = <<>>
    /\ skipped' = {}
    /\ pc' = "process"
    /\ UNCHANGED <<head, safe_head, last_processed, backoff, label_cache, lblvars>>
    /\ UNCHANGED <<first_cursor, iter_start>>
    /\ UNCHANGED runvars
    /\ post_raised' = FALSE
    /\ block_raised' = FALSE
    /\ UNCHANGED rfvars
    /\ UNCHANGED cyvars
    /\ UNCHANGED stop_raised
    /\ start_env' = <<>>
    /\ UNCHANGED decvars

\* lines 192-199: one pass of the for loop of fetch_and_process
ProcessLog ==
    /\ pc = "process"
    /\ lg_idx <= Len(logs)
    /\ \E blk \in (IF logs[lg_idx].shape = "ok" THEN {<<>>} ELSE {})
                   \cup {<<ChainHeader(logs[lg_idx].blockNumber)>>},
          net \in (IF logs[lg_idx].shape # "no_topic1"
                      /\ ~Cached(label_cache, logs[lg_idx].addr)
                   THEN NetOutcomes ELSE {NoNet}) :
        LET d == DecodeCapChangeLog(logs[lg_idx], label_cache, net, blk) IN
        /\ label_cache' = d.cache
        /\ block_raised' = (blk = <<>>)
        /\ UNCHANGED rfvars
        /\ UNCHANGED cyvars
        /\ \E post \in (IF d.raised THEN {"uncalled"} ELSE PostOutcomes) :
            /\ post_raised' = (post = "raise")
            /\ IF d.raised \/ NotifyRaises(post)
               THEN /\ skipped' = skipped \cup {lg_idx}
                    /\ lg_idx' = NextLogAfterRaise(lg_idx, Len(logs))
                    /\ UNCHANGED <<count, notified>>
               ELSE /\ notified' = notified \o EmitEventMsg(lg_idx, d.ev[1])
                    /\ count' = count + 1
                    /\ lg_idx' = lg_idx + 1
                    /\ UNCHANGED skipped
    /\ last_query' = Settled(last_query)
    /\ UNCHANGED stop_raised
    /\ start_env' = <<>>
    /\ UNCHANGED last_error
    /\ UNCHANGED decvars
    /\ UNCHANGED <<logs, loopvars, lblvars>>
    /\ UNCHANGED <<first_cursor, iter_start, issued, covered, requeried>>
    /\ UNCHANGED runvars

\* lines 200-202: the for loop is over, fetch_and_process returns count
FetchReturn ==
    /\ pc = "process"
    /\ lg_idx > Len(logs)
    /\ pc' = "fetched"
    /\ UNCHANGED <<head, safe_head, last_processed, window_end, backoff>>
    /\ last_query' = Settled(last_query)
    /\ UNCHANGED <<winvars, label_cache, lblvars>>
    /\ UNCHANGED <<first_cursor, iter_start, issued, covered, requeried>>
    /\ UNCHANGED runvars
    /\ post_raised' = FALSE
    /\ block_raised' = FALSE
    /\ UNCHANGED rfvars
    /\ UNCHANGED cyvars
    /\ UNCHANGED stop_raised
    /\ start_env' = <<>>
    /\ UNCHANGED last_error
    /\ UNCHANGED decvars

\* what get_logs raises: a transport error or timeout, or the rejection of a
\* window the provider finds too wide
ProviderErrors == {"transient", "range_too_large"}

\* lines 239-241 and 184-189: get_logs raises one of errors, the except clause
\* of line 248
FetchFailWith(errors) ==
    /\ pc = "catchup"
    /\ last_processed <= safe_head
    /\ window_end' = WindowEnd(last_processed, safe_head)
    /\ window_end' >= last_processed
    /\ last_processed' = CursorAfterFailure(last_processed, window_end')
    /\ issued' = Append(issued, Window(last_processed, window_end'))
    /\ last_query' = <<Query(last_processed, window_end', FALSE, safe_head, last_query)>>
    /\ pc' = OnException(pc)
    /\ UNCHANGED <<head, safe_head, backoff>>
    /\ UNCHANGED <<winvars, label_cache, lblvars>>
    /\ UNCHANGED <<first_cursor, iter_start, covered, requeried>>
    /\ fail_run' = Min(MaxFailRun, fail_run + 1)
    /\ post_raised' = FALSE
    /\ block_raised' = FALSE
    /\ UNCHANGED rfvars
    /\ UNCHANGED cyvars
    /\ UNCHANGED stop_raised
    /\ start_env' = <<>>
    /\ \E err \in errors : last_error' = <<err>>
    /\ UNCHANGED decvars

FetchFail == FetchFailWith({"transient"})

\* line 242: the cursor moves past the window
Advance ==
    /\ pc = "fetched"
    /\ last_processed' = NextCursor(window_end)
    /\ pc' = "catchup"
    /\ logs' = <<>>
    /\ lg_idx' = 1
    /\ count' = 0
    /\ notified' = <<>>
    /\ skipped' = {}
    /\ UNCHANGED <<head, safe_head, window_end, backoff, label_cache>>
    /\ UNCHANGED <<histvars, lblvars>>
    /\ UNCHANGED runvars
    /\ post_raised' = FALSE
    /\ block_raised' = FALSE
    /\ UNCHANGED rfvars
    /\ UNCHANGED cyvars
    /\ UNCHANGED stop_raised
    /\ start_env' = <<>>
    /\ UNCHANGED last_error
    /\ UNCHANGED decvars

\* lines 239 and 245-246: the while loop is over
CatchUpDone ==
    /\ pc = "catchup"
    /\ ~(last_processed <= safe_head)
    /\ backoff' = 1
    /\ pc' = "sleep_poll"
    /\ UNCHANGED <<head, safe_head, last_processed, window_end>>
    /\ UNCHANGED <<winvars, label_cache, histvars, lblvars>>
    /\ fail_run' = 0
    /\ post_raised' = FALSE
    /\ block_raised' = FALSE
    /\ UNCHANGED rfvars
    /\ UNCHANGED cyvars
    /\ UNCHANGED stop_raised
    /\ start_env' = <<>>
    /\ UNCHANGED last_error
    /\ UNCHANGED decvars

\* lines 235-236 and 246: time.sleep(POLL_SECONDS) is over
PollSleep ==
    /\ pc = "sleep_poll"
    /\ pc' = "loop"
    /\ issued' = <<>>
    /\ iter_start' = last_processed
    /\ UNCHANGED <<head, safe_head, last_processed, window_end, backoff>>
    /\ UNCHANGED <<winvars, label_cache, lblvars>>
    /\ UNCHANGED <<first_cursor, last_query, covered, requeried>>
    /\ UNCHANGED runvars
    /\ post_raised' = FALSE
    /\ block_raised' = FALSE
    /\ UNCHANGED rfvars
    /\ UNCHANGED cyvars
    /\ UNCHANGED stop_raised
    /\ start_env' = <<>>
    /\ UNCHANGED last_error
    /\ UNCHANGED decvars

\* lines 252-253: the backoff sleep is over and the backoff doubled
BackoffSleep ==
    /\ pc = "sleep_backoff"
    /\ backoff' = NextBackoff(backoff)
    /\ pc' = "loop"
    /\ issued' = <<>>
    /\ iter_start' = last_processed
    /\ UNCHANGED <<head, safe_head, last_processed, window_end>>
    /\ UNCHANGED <<winvars, label_cache, lblvars>>
    /\ last_query' = Settled(last_query)
    /\ UNCHANGED <<first_cursor, covered, requeried>>
    /\ UNCHANGED runvars
    /\ post_raised' = FALSE
    /\ block_raised' = FALSE
    /\ UNCHANGED rfvars
    /\ UNCHANGED cyvars
    /\ UNCHANGED stop_raised
    /\ start_env' = <<>>
    /\ UNCHANGED last_error
    /\ UNCHANGED decvars

Next ==
    \/ Start
    \/ StartFail
    \/ ReadHead
    \/ ReadHeadFail
    \/ FetchOk
    \/ ProcessLog
    \/ FetchReturn
    \/ FetchFail
    \/ Advance
    \/ CatchUpDone
    \/ PollSleep
    \/ BackoffSleep

Spec == Init /\ [][Next]_vars

(* ---------------- resolve_token_label called on its own ---------------- *)
LabelCall(a, net, r) ==
    [addr |-> a, net |-> net, calls |-> r.calls, label |-> r.label,
     known |-> IF a \in Addrs THEN lbl_resolved[a] ELSE <<>>,
     failed_before |-> IF a \in Addrs THEN lbl_failed[a] ELSE FALSE,
     others |-> IF a \in Addrs
                THEN Min(LRU_MAXSIZE, Cardinality(lbl_since[a].seen) + lbl_since[a].fresh)
                ELSE 0]

\* one call resolve_token_label(a), lines 88-114, the network answering
\* from nets when the cache does not
ResolveWith(nets) ==
    /\ \E a \in Addrs :
        LET i == CacheIndex(label_cache, a) IN
        \E net \in (IF i > 0 THEN {NoNet} ELSE nets) :
            LET r == ResolveAt(label_cache, i, a, net) IN
            /\ label_cache' = r.cache
            /\ lbl_call' = <<LabelCall(a, net, r)>>
            /\ lbl_resolved' =
                 IF r.calls = <<>> THEN lbl_resolved
                 ELSE [lbl_resolved EXCEPT ![a] =
                         IF r.label.kind \in {"symbol", "name"} THEN <<r.label>> ELSE <<>>]
            /\ lbl_failed' = [lbl_failed EXCEPT ![a] = r.calls # <<>> /\ NetFailed(net)]
            /\ decoded' = AfterResolution(decoded, a, LabelCall(a, net, r).others)
            /\ dec_call' = <<>>
            /\ lbl_since' = [b \in Addrs |->
                               IF b = a THEN [seen |-> {}, fresh |-> 0]
                               ELSE [lbl_since[b] EXCEPT !.seen = @ \cup {a}]]
    /\ UNCHANGED <<loopvars, winvars, histvars, lbl_bursts>>
    /\ UNCHANGED runvars
    /\ post_raised' = FALSE
    /\ block_raised' = FALSE
    /\ UNCHANGED rfvars
    /\ UNCHANGED cyvars
    /\ UNCHANGED stop_raised
    /\ start_env' = <<>>
    /\ UNCHANGED last_error

Resolve == ResolveWith(NetOutcomes)

\* the runs of fresh addresses: enough of them to fill the cache to its last
\* entry, to push its oldest entry out, or to push every entry out
BurstSizes == {LRU_MAXSIZE - MaxAddr, LRU_MAXSIZE - 1, LRU_MAXSIZE}
BurstFirst == MaxAddr + lbl_bursts * LRU_MAXSIZE + 1

\* resolve_token_label called once on each of n addresses never seen before
Burst ==
    /\ lbl_bursts < MaxBursts
    /\ \E n \in BurstSizes :
        LET lo == BurstFirst
            hi == BurstFirst + n - 1
        IN /\ label_cache' = BurstStore(label_cache, lo, hi)
           /\ lbl_call' =
                <<LabelCall(hi, BurstNet,
                            [label |-> ResolveUncached(hi, BurstNet),
                             calls |-> NetCalls(hi, BurstNet)])>>
           /\ lbl_since' = [b \in Addrs |-> [lbl_since[b] EXCEPT !.fresh = Min(LRU_MAXSIZE, @ + n)]]
    /\ lbl_bursts' = lbl_bursts + 1
    /\ UNCHANGED <<loopvars, winvars, histvars, lbl_resolved, lbl_failed>>
    /\ UNCHANGED runvars
    /\ post_raised' = FALSE
    /\ block_raised' = FALSE
    /\ UNCHANGED rfvars
    /\ UNCHANGED cyvars
    /\ UNCHANGED stop_raised
    /\ start_env' = <<>>
    /\ UNCHANGED last_error
    /\ dec_call' = <<>>
    /\ UNCHANGED decoded

NextLabel ==
    \/ Resolve
    \/ Burst

SpecLabel == Init /\ [][NextLabel]_vars

(* ---------------- the body of resolve_token_label on every answer ---------------- *)
ResolveAnswered == ResolveWith(NetAnswers)

NextChain == ResolveAnswered

SpecChain == Init /\ [][NextChain]_vars

(* ======================= the loop's properties ======================= *)
LastIssued == issued[Len(issued)]

\* the iteration that read the head is still running
InIteration == pc \in {"catchup", "process", "fetched"}

\* C1: the loop plans no window iff safe_head < cursor; otherwise the window
\* starts at the cursor and ends at min(cursor + max_span - 1, safe_head), so
\* it is not empty, at most max_span blocks long and ends at or before safe_head.
C1_WindowPlan ==
    /\ (InIteration \/ pc = "sleep_poll") /\ safe_head < iter_start => issued = <<>>
    /\ pc = "sleep_poll" /\ issued = <<>> => safe_head < last_processed
    /\ InIteration => safe_head >= iter_start
    /\ pc = "catchup" /\ issued = <<>> => last_processed <= safe_head
    /\ (pc \in {"process", "fetched"} \/ (pc = "sleep_backoff" /\ issued # <<>>)) =>
          /\ LastIssued.from = last_processed
          /\ LastIssued.to = Min(last_processed + MAX_BLOCK_SPAN - 1, safe_head)
          /\ LastIssued.to = window_end
          /\ LastIssued.from <= LastIssued.to
          /\ LastIssued.to - LastIssued.from + 1 <= MAX_BLOCK_SPAN
          /\ LastIssued.to <= safe_head

\* a window cut short by the safe head, and an iteration that planned none
C1_Witness ==
    /\ pc = "fetched"
    /\ LastIssued = Window(ExampleStart + 2 * MAX_BLOCK_SPAN, MaxHighHead - CONFIRMATIONS)
    /\ LastIssued.to - LastIssued.from + 1 < MAX_BLOCK_SPAN

\* C2: a catch-up without provider failure ends with the cursor at
\* safe_head + 1 after exactly ceil((safe_head - cursor + 1) / max_span) log
\* queries, whose windows ascend and adjoin, whatever logs they return; from
\* cursor 100 to safe head 125 they are [100,109], [110,119], [120,125].
C2_CatchUp ==
    /\ issued # <<>> => issued[1].from = iter_start
    /\ \A i \in 1..Len(issued) :
          /\ issued[i].from <= issued[i].to
          /\ i < Len(issued) => issued[i + 1].from = issued[i].to + 1
    /\ pc = "sleep_poll" /\ issued # <<>> =>
          /\ last_processed = safe_head + 1
          /\ Len(issued) = Ceil(safe_head - iter_start + 1, MAX_BLOCK_SPAN)
          /\ (iter_start = 100 /\ safe_head = 125 =>
                issued = <<Window(100, 109), Window(110, 119), Window(120, 125)>>)

C2_Witness ==
    /\ pc = "sleep_poll"
    /\ iter_start = 100
    /\ safe_head = 125
    /\ Len(issued) = 3
    /\ label_cache # <<>>

\* C3: every block from the initial cursor up to cursor - 1 is in exactly one
\* answered log query: the answered windows leave no gap and never overlap.
C3_ExactlyOnce ==
    /\ ~requeried
    /\ covered = first_cursor..((IF pc \in {"process", "fetched"}
                                 THEN window_end + 1 ELSE last_processed) - 1)

\* several answered windows with failed queries and a changed head in between
C3_Witness ==
    /\ covered = ExampleStart..(MaxHighHead - CONFIRMATIONS)
    /\ backoff > 2
    /\ last_query # <<>>
    /\ last_query[1].retry_of # <<>>
    /\ last_query[1].retry_of[1].to # last_query[1].to

\* C4 as stated: after a failed log query the cursor is unchanged and the next
\* log query has the same from_block and the same to_block as the failed one.
C4_Original ==
    /\ last_query # <<>> /\ ~last_query[1].ok => last_processed = last_query[1].from
    /\ last_query # <<>> /\ last_query[1].retry_of # <<>> =>
          /\ last_query[1].from = last_query[1].retry_of[1].from
          /\ last_query[1].to = last_query[1].retry_of[1].to

\* C4 amended: after a failed log query the cursor is unchanged and the next
\* log query has the same from_block; its to_block is min(from_block +
\* max_span - 1, safe_head) for the safe head of the retrying iteration, hence
\* the same as the failed one's whenever that safe head is the same.
C4_RetrySameStart ==
    /\ last_query # <<>> /\ ~last_query[1].ok => last_processed = last_query[1].from
    /\ last_query # <<>> /\ last_query[1].retry_of # <<>> =>
          /\ last_query[1].from = last_query[1].retry_of[1].from
          /\ last_query[1].to =
                Min(last_query[1].from + MAX_BLOCK_SPAN - 1, last_query[1].safe_head)
          /\ (last_query[1].safe_head = last_query[1].retry_of[1].safe_head =>
                last_query[1].to = last_query[1].retry_of[1].to)

\* a query that failed, retried with the same window after the backoff
C4_Witness ==
    /\ last_query # <<>>
    /\ last_query[1].retry_of # <<>>
    /\ last_query[1].ok
    /\ last_query[1].to = last_query[1].retry_of[1].to
    /\ last_query[1].to - last_query[1].from + 1 = MAX_BLOCK_SPAN

\* C5: in the loop the cursor never decreases, and it changes only right after
\* fetch_and_process returned for a window, to that window's to_block + 1.
C5_CursorMoves ==
    [][pc # "start" /\ last_processed' # last_processed =>
          /\ pc = "fetched"
          /\ last_query # <<>> /\ last_query[1].ok
          /\ last_query[1].from = last_processed
          /\ last_processed' = last_query[1].to + 1
          /\ last_processed' > last_processed]_vars

C5_Witness ==
    /\ pc = "catchup"
    /\ last_processed = first_cursor + 2 * MAX_BLOCK_SPAN
    /\ backoff > 1

\* C6 as stated: every log query ends at or before chain_head - confirmations,
\* for the head read at the start of its iteration.
C6_Original ==
    \A i \in 1..Len(issued) : issued[i].to <= head - CONFIRMATIONS

\* C6 amended: every log query ends at or before max(0, chain_head -
\* confirmations): at or before chain_head - confirmations for every head of at
\* least the confirmation depth, and at block 0 at the latest for a smaller head.
C6_SafeHeadClamped ==
    \A i \in 1..Len(issued) :
        /\ issued[i].to <= Max(0, head - CONFIRMATIONS)
        /\ head >= CONFIRMATIONS => issued[i].to <= head - CONFIRMATIONS
        /\ head < CONFIRMATIONS => issued[i].to <= 0

\* a query under a head below the confirmation depth, and one under a start override
C6_Witness ==
    /\ issued # <<>>
    /\ head < CONFIRMATIONS
    /\ LastIssued.to = 0
    /\ first_cursor < 0

\* every log of the window the for loop has passed was either skipped because
\* its processing raised, or handed to notify exactly once
Handled(i) ==
    LET calls == {k \in 1..Len(notified) : notified[k].idx = i} IN
    IF i \in skipped THEN calls = {} ELSE Cardinality(calls) = 1

\* C7: a log whose decoding or processing fails does not keep the other logs
\* of its window from being decoded and emitted, no exception leaves
\* fetch_and_process, and the cursor moves past the window as without failure.
C7_LogFailureContained ==
    [][/\ pc = "process" =>
            /\ pc' \in {"process", "fetched"}
            /\ last_processed' = last_processed
            /\ pc' = "fetched" =>
                  /\ \A i \in 1..Len(logs) : Handled(i)
                  /\ count = Len(logs) - Cardinality(skipped)
                  /\ Len(notified) = count
       /\ pc = "fetched" =>
            /\ pc' = "catchup"
            /\ last_processed' = window_end + 1]_vars

\* two logs, the first of which failed, and the cursor past their window
C7_Witness ==
    /\ pc = "fetched"
    /\ Len(logs) = 2
    /\ skipped = {1}
    /\ Len(notified) = 1
    /\ notified[1].idx = 2

\* C8: over a run every event decoded from a fetched log is passed to notify
\* exactly once: no log is fetched by two answered queries, each log the for
\* loop decoded has one notify call, and no other notify call is made.
C8_NotifyOnce ==
    /\ ~requeried
    /\ \A i \in 1..Len(logs) :
          IF i < lg_idx /\ i \notin skipped
          THEN Cardinality({k \in 1..Len(notified) : notified[k].idx = i}) = 1
          ELSE \A k \in 1..Len(notified) : notified[k].idx # i
    /\ \A k \in 1..Len(notified) : notified[k].idx \in 1..Len(logs)
    /\ \A k \in 1..Len(notified) :
          /\ notified[k].ev.block = logs[notified[k].idx].blockNumber
          /\ notified[k].ev.block \in covered
    /\ pc \notin {"process", "fetched"} => notified = <<>>

\* two events notified in a window that was answered only on a retry
C8_Witness ==
    /\ pc = "fetched"
    /\ Len(notified) = 2
    /\ notified[1].idx = 1
    /\ notified[2].idx = 2
    /\ fail_run > 0

(* ---------------- decode_cap_change_log called on its own ---------------- *)
\* one call decode_cap_change_log(lg), lines 119-158
Decode ==
    /\ \E lg \in DecodeLogs :
        \* line 146 is reached by a well-formed log only
        \E blk \in (IF lg.shape = "ok" THEN BlockAnswers(lg.blockNumber)
                    ELSE {<<ChainHeader(lg.blockNumber)>>}) :
        LET resolves == lg.shape # "no_topic1"
            i == CacheIndex(label_cache, lg.addr)
        IN
        \E net \in (IF resolves /\ i = 0 THEN NetOutcomes ELSE {NoNet}) :
            LET d == DecodeCapChangeLog(lg, label_cache, net, blk)
                r == ResolveAt(label_cache, i, lg.addr, net)
                lc == LabelCall(lg.addr, net, r)
                dec == IF resolves THEN AfterResolution(decoded, lg.addr, lc.others) ELSE decoded
            IN
            /\ label_cache' = d.cache
            /\ dec_call' = IF d.raised THEN <<>>
                           ELSE <<[log |-> lg, ev |-> d.ev, header |-> blk,
                                   again |-> decoded # <<>>]>>
            /\ decoded' = IF d.raised \/ dec # <<>> THEN dec
                          ELSE <<[log |-> lg, ev |-> d.ev[1], header |-> blk, kept |-> TRUE]>>
            /\ IF resolves
               THEN /\ lbl_call' = <<lc>>
                    /\ lbl_resolved' =
                         IF r.calls = <<>> THEN lbl_resolved
                         ELSE [lbl_resolved EXCEPT ![lg.addr] =
                                 IF r.label.kind \in {"symbol", "name"} THEN <<r.label>> ELSE <<>>]
                    /\ lbl_failed' = [lbl_failed EXCEPT ![lg.addr] = r.calls # <<>> /\ NetFailed(net)]
                    /\ lbl_since' = [b \in Addrs |->
                                       IF b = lg.addr THEN [seen |-> {}, fresh |-> 0]
                                       ELSE [lbl_since[b] EXCEPT !.seen = @ \cup {lg.addr}]]
               ELSE UNCHANGED <<lbl_call, lbl_resolved, lbl_failed, lbl_since>>
    /\ UNCHANGED <<loopvars, winvars, histvars, lbl_bursts>>
    /\ UNCHANGED runvars
    /\ post_raised' = FALSE
    /\ block_raised' = FALSE
    /\ UNCHANGED rfvars
    /\ UNCHANGED cyvars
    /\ UNCHANGED stop_raised
    /\ start_env' = <<>>
    /\ UNCHANGED last_error

NextDecode ==
    \/ Decode
    \/ Resolve
    \/ Burst

SpecDecode == Init /\ [][NextDecode]_vars

(* ---------------- main() against a provider that limits the span ---------------- *)
\* get_logs rejects a window of more than one block as too wide
FetchRangeTooLarge ==
    /\ FetchFailWith({"range_too_large"})
    /\ window_end' > last_processed

NextRange ==
    \/ Next
    \/ FetchRangeTooLarge

SpecRange == Init /\ [][NextRange]_vars

(* ---------------- PendleAssetsWatcher.py: run_forever(), lines 180-218 ---------------- *)
\* what a one_cycle call ends in: it returns, or raises requests.HTTPError,
\* or raises another exception
CycleOutcomes == {"return", "http_error", "error"}

\* a sleep that does not look at the event
StopSeenNever(ev) == FALSE
\* line 183: stop_event.is_set() in stop_aware_sleep
StopSeen(ev) == ev

\* line 201: the test of the while loop
RfTest ==
    /\ rf_pc = "test"
    /\ rf_pc' = IF stop_event THEN "done" ELSE "call"
    /\ UNCHANGED <<stop_event, rf_i, rf_break, sl_from, sl_left, stop_at, begun_after_stop, woke_after_stop>>
    /\ UNCHANGED aavevars
    /\ UNCHANGED cyvars

\* lines 202-203: one_cycle(i) is called
RfCall ==
    /\ rf_pc = "call"
    /\ rf_pc' = "cycle"
    /\ begun_after_stop' = IF stop_event THEN Min(2, begun_after_stop + 1) ELSE begun_after_stop
    /\ UNCHANGED <<stop_event, rf_i, rf_break, sl_from, sl_left, stop_at, woke_after_stop>>
    /\ UNCHANGED aavevars
    /\ UNCHANGED cyvars

\* lines 203-211: one_cycle returns, or an except clause calls
\* stop_aware_sleep(stop_event, 5 * 60)
RfCycleEnd ==
    /\ rf_pc = "cycle"
    /\ \E out \in CycleOutcomes :
        IF out = "return"
        THEN /\ rf_pc' = "finally"
             /\ UNCHANGED <<sl_from, sl_left>>
        ELSE /\ rf_pc' = "sleep_test"
             /\ sl_from' = out
             /\ sl_left' = BACKOFF_SECS
    /\ UNCHANGED <<stop_event, rf_i, rf_break, stop_at, begun_after_stop, woke_after_stop>>
    /\ UNCHANGED aavevars
    /\ UNCHANGED cyvars

\* lines 213-215: the finally clause counts the cycle and calls
\* stop_aware_sleep(stop_event, POLL_SECS)
RfFinally ==
    /\ rf_pc = "finally"
    /\ rf_i' = Min(MaxCycles, rf_i + 1)
    /\ rf_pc' = "sleep_test"
    /\ sl_from' = "finally"
    /\ sl_left' = POLL_SECS
    /\ UNCHANGED <<stop_event, rf_break, stop_at, begun_after_stop, woke_after_stop>>
    /\ UNCHANGED aavevars
    /\ UNCHANGED cyvars

\* stop_aware_sleep returned `stopped` to the clause that called it: a break
\* in an except clause runs the finally clause first, lines 207-216
SleepReturns(stopped) ==
    IF sl_from = "finally"
    THEN /\ rf_pc' = IF stopped \/ rf_break THEN "done" ELSE "test"
         /\ UNCHANGED rf_break
    ELSE /\ rf_pc' = "finally"
         /\ rf_break' = stopped

\* lines 182-186: one pass of the for loop of stop_aware_sleep, up to the
\* call of time.sleep(1)
SleepTest ==
    /\ rf_pc = "sleep_test"
    /\ IF sl_left = 0 THEN SleepReturns(FALSE)
       ELSE IF StopSeen(stop_event) THEN SleepReturns(TRUE)
       ELSE /\ rf_pc' = "sleeping"
            /\ UNCHANGED rf_break
    /\ UNCHANGED <<stop_event, rf_i, sl_from, sl_left, stop_at, begun_after_stop, woke_after_stop>>
    /\ UNCHANGED aavevars
    /\ UNCHANGED cyvars

\* line 185: time.sleep(1) is over
SleepWake ==
    /\ rf_pc = "sleeping"
    /\ sl_left' = sl_left - 1
    /\ rf_pc' = "sleep_test"
    /\ woke_after_stop' = IF stop_event THEN Min(2, woke_after_stop + 1) ELSE woke_after_stop
    /\ UNCHANGED <<stop_event, rf_i, rf_break, sl_from, stop_at, begun_after_stop>>
    /\ UNCHANGED aavevars
    /\ UNCHANGED cyvars

\* pendle_service.py, lines 27-29: on_stop sets the event, from another thread
SetStop ==
    /\ ~stop_event
    /\ rf_pc # "done"
    /\ stop_event' = TRUE
    /\ stop_at' = rf_pc
    /\ UNCHANGED <<rf_pc, rf_i, rf_break, sl_from, sl_left, begun_after_stop, woke_after_stop>>
    /\ UNCHANGED aavevars
    /\ UNCHANGED cyvars

NextRun ==
    \/ RfTest
    \/ RfCall
    \/ RfCycleEnd
    \/ RfFinally
    \/ SleepTest
    \/ SleepWake
    \/ SetStop

SpecRun == Init /\ [][NextRun]_vars

(* ---------------- PendleAssetsWatcher.py: one_cycle(), lines 84-172 ---------------- *)
\* the "address" of an asset of the payload: missing or empty, or an address
\* written in lower case or with capitals
NoAddress == [a |-> 0, capitals |-> FALSE]
AssetAddresses == {NoAddress} \cup {[a |-> n, capitals |-> c] : n \in 1..MaxAsset, c \in BOOLEAN}

\* (a.get("address") or "").lower(), lines 101 and 152
Lower(x) == [x EXCEPT !.capitals = FALSE]

\* what a database statement does: it runs, or raises SQLAlchemyError
DbOutcomes == {"ok", "raise"}

\* lines 84-95: get_known_addresses
GetKnownAddresses(tbl, db) == IF db = "ok" THEN {Lower(x) : x \in tbl} ELSE {}

\* lines 150-154: the assets with an address that is not known
NewAssets(assets, known) == {x \in assets : Lower(x) # NoAddress /\ Lower(x) \notin known}

\* lines 97-113: upsert_asset_batch, the table it leaves
UpsertAssetBatch(tbl, assets, db) ==
    IF assets # {} /\ db = "ok" THEN tbl \cup {Lower(x) : x \in assets} ELSE tbl

\* lines 135-141: the connection check; one_cycle returns when it raises
CyConnect ==
    /\ cy_pc = "begin"
    /\ \E db \in DbOutcomes : cy_pc' = IF db = "ok" THEN "connected" ELSE "returned"
    /\ table_before' = table
    /\ listed' = {}
    /\ UNCHANGED <<table, curr_assets, known_addrs, new_assets>>
    /\ UNCHANGED <<aavevars, rfvars>>

\* lines 143-145: fetch_assets returns a payload
CyFetch ==
    /\ cy_pc = "connected"
    /\ \E assets \in SUBSET AssetAddresses : curr_assets' = assets
    /\ cy_pc' = "fetched"
    /\ UNCHANGED <<table, known_addrs, new_assets, table_before, listed>>
    /\ UNCHANGED <<aavevars, rfvars>>

\* lines 143-144: fetch_assets raises, and one_cycle with it
CyFetchFail ==
    /\ cy_pc = "connected"
    /\ cy_pc' = "returned"
    /\ UNCHANGED <<table, curr_assets, known_addrs, new_assets, table_before, listed>>
    /\ UNCHANGED <<aavevars, rfvars>>

\* lines 147-154: the known addresses are read and the new assets picked
CyDetect ==
    /\ cy_pc = "fetched"
    /\ \E db \in DbOutcomes :
        /\ known_addrs' = GetKnownAddresses(table, db)
        /\ new_assets' = NewAssets(curr_assets, known_addrs')
    /\ cy_pc' = "detected"
    /\ UNCHANGED <<table, curr_assets, table_before, listed>>
    /\ UNCHANGED <<aavevars, rfvars>>

\* lines 156-157: everything fetched is upserted
CyUpsert ==
    /\ cy_pc = "detected"
    /\ \E db \in DbOutcomes : table' = UpsertAssetBatch(table, curr_assets, db)
    /\ cy_pc' = "upserted"
    /\ UNCHANGED <<curr_assets, known_addrs, new_assets, table_before, listed>>
    /\ UNCHANGED <<aavevars, rfvars>>

\* lines 159-170: notify is called when there are new assets and the known
\* addresses were not empty
CyReport ==
    /\ cy_pc = "upserted"
    /\ listed' = IF new_assets # {} /\ known_addrs # {} THEN new_assets ELSE {}
    /\ cy_pc' = "returned"
    /\ UNCHANGED <<table, curr_assets, known_addrs, new_assets, table_before>>
    /\ UNCHANGED <<aavevars, rfvars>>

\* run_forever calls one_cycle again
CyAgain ==
    /\ cy_pc = "returned"
    /\ cy_pc' = "begin"
    /\ curr_assets' = {}
    /\ known_addrs' = {}
    /\ new_assets' = {}
    /\ UNCHANGED <<table, table_before, listed>>
    /\ UNCHANGED <<aavevars, rfvars>>

NextCycle ==
    \/ CyConnect
    \/ CyFetch
    \/ CyFetchFail
    \/ CyDetect
    \/ CyUpsert
    \/ CyReport
    \/ CyAgain

SpecCycle == Init /\ [][NextCycle]_vars

(* ---------------- main() hosted beside a stop signal ---------------- *)
\* the hosting process raises its stop signal; no line of main() reads one
RaiseStop ==
    /\ ~stop_raised
    /\ pc \notin {"start", "halted"}
    /\ stop_raised' = TRUE
    /\ start_env' = <<>>
    /\ UNCHANGED last_error
    /\ UNCHANGED decvars
    /\ post_raised' = FALSE
    /\ block_raised' = FALSE
    /\ UNCHANGED rfvars
    /\ UNCHANGED cyvars
    /\ UNCHANGED <<loopvars, winvars, label_cache, histvars, lblvars, runvars>>

NextStop ==
    \/ Next
    \/ RaiseStop

SpecStop == Init /\ [][NextStop]_vars

(* ======================= the resolver's properties ======================= *)
\* C9 as stated: once a resolution of an address has produced a label from
\* the network, every later resolution of it makes no network call and
\* returns that label.
C9_Original ==
    lbl_call # <<>> /\ lbl_call[1].known # <<>> =>
        /\ lbl_call[1].calls = <<>>
        /\ lbl_call[1].label = lbl_call[1].known[1]

\* C9 amended: once a resolution of an address has produced a label from the
\* network, every later resolution of it makes no network call and returns
\* that label as long as fewer than 4096 other addresses have been resolved
\* since the address was last resolved.
C9_Memoized ==
    lbl_call # <<>> /\ lbl_call[1].known # <<>> /\ lbl_call[1].others < LRU_MAXSIZE =>
        /\ lbl_call[1].calls = <<>>
        /\ lbl_call[1].label = lbl_call[1].known[1]

\* a label still remembered after 4095 other addresses were resolved
C9_Witness ==
    /\ lbl_call # <<>>
    /\ lbl_call[1].known # <<>>
    /\ lbl_call[1].others = LRU_MAXSIZE - 1
    /\ lbl_call[1].calls = <<>>
    /\ lbl_call[1].label.kind = "name"

\* C10: a resolution whose network calls threw or returned empty or malformed
\* bytes is not cached: the next resolution of the address calls the network again.
C10_FailureNotCached ==
    lbl_call # <<>> /\ lbl_call[1].failed_before => lbl_call[1].calls # <<>>
\* C11 as stated: every resolution that reaches the network returns the
\* address when the address has no deployed code, else the symbol() text when
\* there is one, else the name() text when there is one, else the address,
\* whatever the code check, symbol() and name() answer.
C11_Original ==
    lbl_call # <<>> /\ lbl_call[1].calls # <<>> =>
        lbl_call[1].label =
            IF lbl_call[1].net.code = "empty" THEN Label("address", lbl_call[1].addr)
            ELSE IF lbl_call[1].net.symbol = "text" THEN Label("symbol", lbl_call[1].addr)
            ELSE IF lbl_call[1].net.name = "text" THEN Label("name", lbl_call[1].addr)
            ELSE Label("address", lbl_call[1].addr)

\* C11 amended: every resolution returns a label of its address; one that
\* reaches the network returns the address when the code check finds no code
\* or fails, and then calls neither symbol() nor name(); else the symbol() text
\* when there is one, without calling name(); else the name() text when there
\* is one; else the address.
C11_PriorityChain ==
    lbl_call # <<>> =>
        /\ lbl_call[1].label.kind \in {"address", "symbol", "name"}
        /\ lbl_call[1].label.addr = lbl_call[1].addr
        /\ lbl_call[1].calls # <<>> =>
              IF lbl_call[1].net.code \in {"empty", "raise"}
              THEN /\ lbl_call[1].label.kind = "address"
                   /\ lbl_call[1].calls = <<"get_code">>
              ELSE IF lbl_call[1].net.symbol = "text"
              THEN /\ lbl_call[1].label.kind = "symbol"
                   /\ lbl_call[1].calls = <<"get_code", "symbol">>
              ELSE /\ lbl_call[1].calls = <<"get_code", "symbol", "name">>
                   /\ lbl_call[1].label.kind =
                         IF lbl_call[1].net.name = "text" THEN "name" ELSE "address"

\* symbol() raised and name() answered with text
C11_Witness ==
    /\ lbl_call # <<>>
    /\ lbl_call[1].net = [code |-> "code", symbol |-> "raise", name |-> "text"]
    /\ lbl_call[1].label = Label("name", lbl_call[1].addr)

(* ======================= the backoff's properties ======================= *)
RECURSIVE Pow2(_)
Pow2(n) == IF n <= 0 THEN 1 ELSE 2 * Pow2(n - 1)

\* C12: the backoff is an integer in [1, 60], and the k-th of the iterations
\* that raised in a row, with no iteration without exception in between,
\* sleeps min(60, 2^(k-1)): 1, 2, 4, ..., 32, 60, 60, ...
C12_BackoffDoubles ==
    /\ backoff \in 1..BACKOFF_CAP
    /\ pc = "sleep_backoff" =>
          BackoffSleepTime(backoff) = Min(BACKOFF_CAP, Pow2(fail_run - 1))

\* C13: after every iteration that ends without an exception, the one that
\* only sleeps the poll interval included, the backoff is 1, so the first
\* iteration to raise after it sleeps 1.
C13_BackoffReset ==
    /\ pc = "sleep_poll" => backoff = 1
    /\ pc = "sleep_backoff" /\ fail_run = 1 => BackoffSleepTime(backoff) = 1

C15_NotifyFailureContained ==
    [][/\ post_raised' =>
             /\ pc = "process" /\ pc' = "process"
             /\ count' = count + 1
             /\ lg_idx' = lg_idx + 1
             /\ lg_idx \notin skipped'
             /\ Len(notified') = Len(notified) + 1
             /\ notified'[Len(notified')].idx = lg_idx
             /\ backoff' = backoff /\ fail_run' = fail_run
             /\ last_processed' = last_processed
       /\ post_raised =>
             /\ pc' \in {"process", "fetched"}
             /\ lg_idx <= Len(logs) => lg_idx' > lg_idx
             /\ backoff' = backoff /\ fail_run' = fail_run
       /\ pc = "fetched" => pc' = "catchup" /\ last_processed' = NextCursor(window_end)]_vars

\* the post raised for the first of two logs
C15_Witness ==
    /\ post_raised
    /\ Len(logs) = 2
    /\ lg_idx = 2
    /\ count = 1

\* C16: once the stop signal is raised, the sleep the loop is in or next
\* reaches (poll sleep, sleep after catch-up, backoff sleep) ends the loop:
\* no further head read follows it, and no window is left half processed
C16_StopAtSleep ==
    [][stop_raised /\ pc \in {"sleep_poll", "sleep_backoff"} => pc' = "stopped"]_vars

\* a decode that returned an event for the log of the remembered decode
Redecoded ==
    /\ dec_call # <<>>
    /\ dec_call[1].again
    /\ decoded # <<>>
    /\ dec_call[1].log = decoded[1].log

\* C17 as stated: a decode of a raw log that returns an event returns the
\* event the first decode of that log returned, field by field, whatever
\* decodes, label resolutions and provider failures came in between.
C17_Original ==
    Redecoded => dec_call[1].ev[1] = decoded[1].ev

\* C17 amended: a decode of a raw log that returns an event returns the kind,
\* block and asset address the first decode of that log returned; it returns
\* the same asset label as long as every resolution of the asset address in
\* between and its own came with fewer than 4096 other addresses resolved
\* since the address was last resolved; and it returns the same timestamp
\* exactly when get_block gave it the same header for the block.
C17_IdempotentWhileKept ==
    Redecoded =>
        /\ dec_call[1].ev[1].event = decoded[1].ev.event
        /\ dec_call[1].ev[1].block = decoded[1].ev.block
        /\ dec_call[1].ev[1].asset_addr = decoded[1].ev.asset_addr
        /\ decoded[1].kept => dec_call[1].ev[1].asset_label = decoded[1].ev.asset_label
        /\ dec_call[1].ev[1].ts = decoded[1].ev.ts <=> dec_call[1].header = decoded[1].header

\* a log decoded again after 4095 other addresses were resolved: same label
\* from the cache, same header, same event
C17_Witness ==
    /\ Redecoded
    /\ decoded[1].kept
    /\ lbl_call # <<>>
    /\ lbl_call[1].others = LRU_MAXSIZE - 1
    /\ lbl_call[1].calls = <<>>
    /\ decoded[1].ev.asset_label.kind = "symbol"
    /\ dec_call[1].ev[1] = decoded[1].ev

\* C18 as stated: the initial cursor is the start-block override when one is
\* configured and parses, and head - confirmations in every other case.
C18_Original ==
    start_env # <<>> =>
        last_processed =
            IF start_env[1].set /\ start_env[1].parses THEN start_env[1].value
            ELSE head - CONFIRMATIONS

\* C18 amended: the initial cursor is the start-block override when one is
\* configured and parses; head - confirmations, negative below head 3, when
\* one is configured and does not parse; and max(0, head - confirmations)
\* when none is configured.
C18_InitialCursor ==
    start_env # <<>> =>
        /\ pc = "loop"
        /\ last_processed =
            IF start_env[1].set /\ start_env[1].parses THEN start_env[1].value
            ELSE IF start_env[1].set THEN head - CONFIRMATIONS
            ELSE Max(0, head - CONFIRMATIONS)

\* a start without an override at a head below the confirmation depth
C18_Witness ==
    /\ start_env # <<>>
    /\ ~start_env[1].set
    /\ head = 1
    /\ last_processed = 0

\* a well-formed log of this window was skipped: notify keeps what it
\* raises, so it is the get_block read of its decoding that raised
HeaderReadFailed == \E i \in skipped : logs[i].shape = "ok"

\* C19: a provider failure in a network call made while a window is
\* processed, the log query or the block-header read of an event, sends the
\* loop to its backoff sleep with the cursor still at the start of that window.
C19_ProviderErrorRetried ==
    [][/\ pc = "catchup" /\ pc' = "sleep_backoff" => last_processed' = last_processed
       /\ pc = "process" /\ lg_idx <= Len(logs) /\ logs[lg_idx].shape = "ok" /\ lg_idx \in skipped'
            => pc' = "sleep_backoff" /\ last_processed' = last_processed
       /\ pc = "fetched" /\ HeaderReadFailed => last_processed' = last_processed]_vars

\* C20: after get_logs rejected a window as too wide, the next log query
\* does not have both the from_block and the to_block of the rejected one.
C20_RangeNotRetried ==
    [][last_error = <<"range_too_large">> /\ Len(issued') > Len(issued) =>
          ~(/\ last_query'[1].from = last_query[1].from
            /\ last_query'[1].to = last_query[1].to)]_vars

\* the for loop is at a log whose topic0 is neither registered signature
AtUnknownLog ==
    /\ pc = "process"
    /\ lg_idx <= Len(logs)
    /\ logs[lg_idx].topic0 = TOPIC_OTHER

\* C21 as stated: every log whose topic0 matches neither registered
\* signature is decoded to an UnknownEvent event that is passed to notify,
\* and is not skipped.
C21_Original ==
    [][AtUnknownLog =>
          /\ lg_idx \notin skipped'
          /\ Len(notified') = Len(notified) + 1
          /\ notified'[Len(notified')].ev.event = "UnknownEvent"]_vars

\* C21 amended: a log whose topic0 matches neither registered signature,
\* that carries topics[1] and two words of data and whose block header is
\* read, is decoded to an event of kind UnknownEvent with its block, asset
\* address and label as for any log, passed to notify once and counted;
\* one that lacks topics[1] or whose header read raises is skipped as any
\* such log is; either way the loop goes on with the next log, the cursor
\* and the backoff untouched.
C21_UnknownPassedThrough ==
    [][AtUnknownLog =>
          /\ pc' = "process"
          /\ lg_idx' = lg_idx + 1
          /\ backoff' = backoff
          /\ fail_run' = fail_run
          /\ last_processed' = last_processed
          /\ IF logs[lg_idx].shape = "ok" /\ ~block_raised'
             THEN /\ lg_idx \notin skipped'
                  /\ count' = count + 1
                  /\ Len(notified') = Len(notified) + 1
                  /\ notified'[Len(notified')].idx = lg_idx
                  /\ notified'[Len(notified')].ev.event = "UnknownEvent"
                  /\ notified'[Len(notified')].ev.block = logs[lg_idx].blockNumber
                  /\ notified'[Len(notified')].ev.asset_addr = logs[lg_idx].addr
                  /\ notified'[Len(notified')].ev.asset_label.addr = logs[lg_idx].addr
             ELSE /\ lg_idx \in skipped'
                  /\ notified' = notified
                  /\ count' = count]_vars

\* an UnknownEvent event notified and counted, the for loop at the next log
C21_Witness ==
    /\ pc = "process"
    /\ Len(logs) = 2
    /\ lg_idx = 2
    /\ skipped = {}
    /\ count = 1
    /\ Len(notified) = 1
    /\ notified[1].ev.event = "UnknownEvent"
    /\ logs[1].topic0 = TOPIC_OTHER

\* C22 as stated: once stop_event is set no one_cycle call begins, and at
\* most the second of sleep under way ends before the stop is seen.
C22_Original ==
    /\ begun_after_stop = 0
    /\ woke_after_stop <= 1

\* C22 amended: once stop_event is set, the while test and every test of
\* stop_aware_sleep that finds seconds left end the loop, through the finally
\* clause when the sleep was called by an except clause; no time.sleep(1) is
\* begun, and the only one that ends is the one under way when the event was
\* set; the only one_cycle call that begins is the one whose while test had
\* passed just before the event was set.
C22_StopObserved ==
    [][/\ stop_event /\ rf_pc = "test" => rf_pc' = "done"
       /\ stop_event /\ rf_pc = "sleep_test" =>
            /\ rf_pc' # "sleeping"
            /\ sl_left > 0 /\ sl_from = "finally" => rf_pc' = "done"
            /\ sl_left > 0 /\ sl_from # "finally" => rf_pc' = "finally" /\ rf_break'
            /\ rf_break => rf_pc' = "done"
       /\ stop_event /\ rf_pc = "call" /\ rf_pc' = "cycle" =>
            stop_at = "call" /\ begun_after_stop' = 1
       /\ stop_event /\ rf_pc = "sleeping" /\ rf_pc' = "sleep_test" =>
            stop_at = "sleeping" /\ woke_after_stop' = 1
       /\ begun_after_stop' + woke_after_stop' <= 1
       /\ rf_pc = "done" => rf_pc' = "done"]_vars

\* a stop set during the backoff sleep of an except clause: that second
\* ends, the break runs the finally clause, whose sleep returns at once
C22_Witness ==
    /\ rf_pc = "done"
    /\ stop_at = "sleeping"
    /\ woke_after_stop = 1
    /\ rf_break
    /\ sl_from = "finally"
    /\ sl_left = POLL_SECS
    /\ begun_after_stop = 0

\* C23: when a cycle that began with a table holding an address has
\* returned, every fetched asset whose address is not empty and was not in
\* the table was listed by the notify call of the cycle; and an address
\* joins a table that held one only if the cycle listed an asset of it.
C23_NewAnnounced ==
    cy_pc = "returned" /\ table_before # {} =>
        /\ \A x \in curr_assets :
              Lower(x) # NoAddress /\ Lower(x) \notin table_before => x \in listed
        /\ \A y \in table \ table_before :
              y = NoAddress \/ \E x \in listed : Lower(x) = y

====
